---- MODULE Spec2Model ----
(***************************************************************************)
(* A model of the tower-defense game loop of alexanderjophus/td: the die   *)
(* shop, the roll resolver, the tower registry, the wave engine and the    *)
(* four-phase state machine (Economy, Rolling, Placement, Wave).           *)
(*                                                                         *)
(* The program is a Bevy application: a sequence of frames.  One frame     *)
(* runs every system whose run condition holds, once each, and one step of *)
(* the model is one frame.  A system is an operator from the world it      *)
(* meets to the set of worlds it can leave (one per input and per random   *)
(* draw).  The systems of one schedule carry no ordering constraints (the  *)
(* tuples handed to add_systems are not chained), so the order inside a    *)
(* frame is not fixed: a frame runs its systems in any order, up to the    *)
(* exchange of systems that share no data.  What a system defers           *)
(* (Commands: spawn, despawn) and the state change it requests             *)
(* (NextState::set) take effect when the frame ends.                       *)
(*                                                                         *)
(* Time is counted in seconds; a frame's delta is drawn from Deltas.       *)
(* Positions are reduced to the number of movement steps an enemy is away  *)
(* from the goal.                                                          *)
(*                                                                         *)
(* Spec follows the whole game loop; in its frames die_rolled resolves     *)
(* every roll request and the physical die of dice_physics.rs is left out. *)
(* RollSpec follows the Rolling phase with its physical dice, CombatSpec a *)
(* wave fought with placed towers, SparseSpec the Rolling phase under a    *)
(* tower catalog that lacks an element, and DrawSpec one call of           *)
(* DieFace::generate draw by draw.                                         *)
(***************************************************************************)
EXTENDS Integers, Sequences, FiniteSets, TLC

----------------------------------------------------------------------------
(* Bounds of the model *)

\* the shop dice the model keeps, of the catalog of economy.rs:14-19
MaxShop == 2
\* the shop dice (the first MaxLucky) that may come out of DieFace::generate
\* with a changed face
MaxLucky == 1
\* frame deltas, in seconds
MinDelta == 9
MaxDelta == 10
\* the rounds (Economy, Rolling, Placement, Wave) the model follows the game for
MaxWaves == 2
\* the enemy catalog's health values the model draws from: 0..MaxEnemyHealth
MaxEnemyHealth == 1
\* movement steps between the spawn point and the goal
PathSteps == 2
\* EnemySpawner.total_time, in seconds: the span during which the spawner
\* spawns (the sources do not construct it)
SpawnTotalSecs == 15
\* the Tower entities a wave is fought with, at most
MaxTowers == 2
\* a frame's Time::delta, in seconds, in the frames of a fought wave
CombatDelta == 4
\* the steps a projectile flies from its tower until it touches its target
ProjectileSteps == 1
\* a frame's Time::delta, in seconds, in the frames of a roll with its
\* physical die
RollDelta == 1
\* the dot products of a die's axes with the up vector: -MaxDot..MaxDot
MaxDot == 1
\* the units of the clock in a second, and a frame's Time::delta in these
\* units, in the frames of a wave whose towers' cooldown lasts longer than
\* a frame
ShootRate == 2
ShootDelta == 1
\* the faces the model follows a DieBuilder for (from_d6_type: size 6)
BuiltFaces == 2
\* the elements the rejection loop of DieFace::generate draws, at most
MaxDraws == 2

(* Program constants *)

\* DieBuilder::from_d6_type: size
DieSize == 6
\* DieBuilder::build: value
DieValue == 20
\* start_wave: Timer::from_seconds(20.0, TimerMode::Once)
WaveSecs == 20
\* target_death: game_resources.money += 10
KillReward == 10
\* setup: EnemySpawner timer, Duration::from_secs(1), repeating
SpawnSecs == 1
\* tower_shooting: Projectile { damage: 5, .. }
ProjectileDamage == 5
\* tower_shooting: lifetime: Timer::new(Duration::from_secs(5), TimerMode::Once)
LifetimeSecs == 5
\* place_tower: attack_speed: Timer::from_seconds(1.0, TimerMode::Repeating)
AttackSecs == 1
\* handle_dice_roll: roll_timeout_timer: Timer::new(Duration::from_secs(5), Once)
RollTimeoutSecs == 5
\* handle_dice_roll: roll_display_timer: Timer::new(Duration::from_secs(2), Once)
DisplaySecs == 2
\* GameResources is created with money = 50 (its definition is not among the
\* source files; the value is the specification's)
InitialMoney == 50

Deltas == MinDelta..MaxDelta

----------------------------------------------------------------------------
(* Data *)

\* enum GamePlayState; NoState is NextState::Unchanged
Economy == "Economy"
Rolling == "Rolling"
Placement == "Placement"
Wave == "Wave"
NoState == "Unchanged"
GamePlayState == {Economy, Rolling, Placement, Wave}

\* enum BaseElementType and the four elements generate() draws from
BaseElementType == {"None", "Fire", "Water", "Earth", "Wind"}
GenElements == <<"Earth", "Fire", "Water", "Wind">>

\* enum Rarity, in declaration order
Rarity == <<"Common", "Uncommon", "Rare", "Epic", "Unique">>

\* DieFace::new
DieFace(primary_type, rarity) == [primary_type |-> primary_type, rarity |-> rarity]

\* the rarity match of DieFace::generate
UpgradeRarityWraps(r) ==
    CASE r = "Common" -> "Uncommon"
      [] r = "Uncommon" -> "Rare"
      [] r = "Rare" -> "Epic"
      [] r = "Epic" -> "Unique"
      [] OTHER -> "Common"
UpgradeRarity(r) ==
    CASE r = "Common" -> "Uncommon"
      [] r = "Uncommon" -> "Rare"
      [] r = "Rare" -> "Epic"
      [] r = "Epic" -> "Unique"
      [] OTHER -> "Unique"

\* DieFace::generate, with the random source's outcomes as arguments:
\* change = gen_bool(0.25), draws = the elements the rejection loop draws
\* (indices into GenElements; the loop stops at the first one that differs
\* from the base), upgrade = gen_bool(0.05)
RECURSIVE FirstDifferent(_, _)
FirstDifferent(draws, base_element) ==
    IF GenElements[Head(draws)] # base_element
    THEN GenElements[Head(draws)]
    ELSE FirstDifferent(Tail(draws), base_element)

GenerateChanged(base_element, base_rarity, change, draws, upgrade) ==
    DieFace(FirstDifferent(draws, base_element),
            IF upgrade THEN UpgradeRarity(base_rarity) ELSE base_rarity)
Generate(base_element, base_rarity, change, draws, upgrade) ==
    DieFace(IF change THEN FirstDifferent(draws, base_element) ELSE base_element,
            IF upgrade THEN UpgradeRarity(base_rarity) ELSE base_rarity)

\* Option<DieFace>: <<>> is None, <<f>> is Some(f)
None == <<>>
Some(f) == <<f>>

\* DieBuilder::from_d6_type(t).build(): DieSize faces, each from generate();
\* lucky tells whether the first face took both random branches (its element
\* redrawn: Wind, or Earth for a Wind die; its rarity upgraded); the other
\* faces took neither
BuildDie(selected_type, lucky) ==
    [faces |-> [i \in 1..DieSize |->
                  IF lucky /\ i = 1
                  THEN Generate(selected_type, "Common", TRUE, <<4, 1>>, TRUE)
                  ELSE Generate(selected_type, "Common", FALSE, <<>>, FALSE)],
     value |-> DieValue,
     result |-> None,
     rolling |-> FALSE]

\* EconomyPlugin::build: shop_items, one die per element
ShopTypes == <<"Fire", "Water", "Earth", "Wind">>

\* #[derive(PartialEq)] on struct Die { faces, value, result }: the derived
\* equality compares every field the struct declares
DieEq(a, b) == a.faces = b.faces /\ a.value = b.value /\ a.result = b.result

\* Vec<Die>::contains
Contains(ds, d) == \E i \in 1..Len(ds) : DieEq(ds[i], d)

\* The tower catalog (Assets<TowerDetails>): the element of each tower, by id.
\* The asset files are not part of the sources; the model draws the catalog
\* from these.
TowerCatalogs == { <<"Fire", "Water", "Earth", "Wind", "Wind">> }

----------------------------------------------------------------------------
VARIABLES
    state,              \* State<GamePlayState>
    panicked,           \* a system panicked: the application is gone
    money,              \* GameResources.money
    dice,               \* GameResources.dice
    highlighted_die,    \* GameResources.highlighted_die (0-based)
    towers,             \* GameResources.towers
    highlighted_tower,  \* GameResources.highlighted_tower (0-based)
    shop_items,         \* DieShop.items
    shop_highlighted,   \* DieShop.highlighted (0-based)
    tower_assets,       \* Assets<TowerDetails>
    enemy_health,       \* the health of the enemy catalog's first entry
    ev_purchase,        \* DiePurchaseEvent not yet read by die_purchased
    ev_rolled,          \* DieRolledEvent not yet read by die_rolled
    ev_result,          \* DieRollResultEvent not yet read by save_die_result
    waves,              \* the Wave entities: each one's timer, elapsed seconds
    spawner,            \* the EnemySpawner entity's two timers
    enemies,            \* the Enemy entities
    placed,             \* the Tower entities
    projectiles,        \* the Projectile entities
    physical,           \* the PhysicalDie entities
    ev_thrown,          \* DieRolledEvent not yet read by handle_dice_roll
    unlocked,           \* history: a tower was unlocked since Rolling was last entered
    builder             \* the DieBuilder whose build() is running, if any

vars == <<state, panicked, money, dice, highlighted_die, towers,
          highlighted_tower, shop_items, shop_highlighted, tower_assets,
          enemy_health, ev_purchase, ev_rolled, ev_result, waves, spawner,
          enemies, placed, projectiles, physical, ev_thrown, unlocked,
          builder>>

\* App::init_state::<GamePlayState>() (#[default] Economy), the DiePool and
\* TowerPool resources of GamePlugin::build (empty, highlighted 0), the DieShop
\* of EconomyPlugin::build, the EnemySpawner of setup
Init ==
    /\ state = Economy
    /\ panicked = FALSE
    /\ money = InitialMoney
    /\ dice = <<>>
    /\ highlighted_die = 0
    /\ towers = <<>>
    /\ highlighted_tower = 0
    /\ \E lucky \in SUBSET (1..MaxLucky) :
          shop_items = [i \in 1..MaxShop |-> BuildDie(ShopTypes[i], i \in lucky)]
    /\ shop_highlighted = 0
    /\ tower_assets \in TowerCatalogs
    /\ enemy_health \in 0..MaxEnemyHealth
    /\ ev_purchase = <<>>
    /\ ev_rolled = <<>>
    /\ ev_result = <<>>
    /\ waves = <<>>
    /\ spawner = [delta |-> 0, total_time |-> 0]
    /\ enemies = {}
    /\ placed = <<>>
    /\ projectiles = {}
    /\ physical = {}
    /\ ev_thrown = <<>>
    /\ builder = None
    /\ unlocked = FALSE

----------------------------------------------------------------------------
(* The world inside a frame *)

\* Commands: what the systems of a frame defer to its end
NoCommands ==
    [spawn_wave |-> 0, spawn_enemy |-> 0, dead |-> {}, goal |-> {},
     spawn_projectile |-> <<>>, despawn_projectile |-> {},
     spawn_die |-> <<>>, despawn_die |-> {}]

\* The world a frame starts from: the variables, no state change requested
\* (NextState::Unchanged), no command deferred, and the frame's Time::delta.
\* rate is the number of units of the delta in a second: 1 unless a
\* specification counts the time in fractions of a second.
World(dt) ==
    [state |-> state, nextState |-> NoState, panicked |-> panicked,
     money |-> money, dice |-> dice, highlighted_die |-> highlighted_die,
     towers |-> towers, highlighted_tower |-> highlighted_tower,
     shop_highlighted |-> shop_highlighted, ev_purchase |-> ev_purchase,
     ev_rolled |-> ev_rolled, ev_result |-> ev_result, waves |-> waves,
     spawner |-> spawner, enemies |-> enemies, placed |-> placed,
     projectiles |-> projectiles, physical |-> physical,
     ev_thrown |-> ev_thrown, unlocked |-> unlocked,
     commands |-> NoCommands, delta |-> dt, rate |-> 1]

\* a duration of secs seconds, in the units of the world's delta
Secs(w, secs) == secs * w.rate

----------------------------------------------------------------------------
(* Economy *)

\* economy_ui: can_purchase
CanPurchaseNoFunds(m, current_die, owned) == ~Contains(owned, current_die)
CanPurchaseAnyMoney(m, current_die, owned) ==
    m > 0 /\ ~Contains(owned, current_die)
CanPurchase(m, current_die, owned) ==
    m >= current_die.value /\ ~Contains(owned, current_die)

\* economy_ui: the button that was clicked in this frame, if any
Clicks == {"none", "left", "right", "purchase", "start"}

\* The highlight arithmetic shared by the shop, the dice and the towers:
\* (i + n - 1) % n steps back, (i + 1) % n steps forward
WrapPrev(i, n) == (i + n - 1) % n
WrapNextClamped(i, n) == IF i + 1 < n THEN i + 1 ELSE i
WrapNextNoModulo(i, n) == i + 1
WrapNext(i, n) == (i + 1) % n

\* economy_ui: the highlighted die once the navigation buttons are handled
ShopHighlightAfter(highlighted, click) ==
    CASE click = "left" -> WrapPrev(highlighted, Len(shop_items))
      [] click = "right" -> WrapNext(highlighted, Len(shop_items))
      [] OTHER -> highlighted

\* economy_ui: the next state "Start Game" requests
StartGameNext == Rolling

\* (shop.items[shop.highlighted] is indexed in every frame: out of bounds it
\* panics)
economy_ui_on(w, click) ==
    LET highlighted == ShopHighlightAfter(w.shop_highlighted, click)
        current_die == shop_items[highlighted + 1]
        bought == click = "purchase" /\ CanPurchase(w.money, current_die, w.dice)
    IN  IF highlighted >= Len(shop_items)
        THEN [w EXCEPT !.panicked = TRUE]
        ELSE [w EXCEPT !.shop_highlighted = highlighted,
                       !.money = IF bought THEN @ - current_die.value ELSE @,
                       !.ev_purchase = IF bought THEN Append(@, current_die) ELSE @,
                       !.nextState = IF click = "start" THEN StartGameNext ELSE @]

economy_ui(w) == {economy_ui_on(w, click) : click \in Clicks}

\* die_purchased: every unread DiePurchaseEvent is pushed onto dice
die_purchased(w) ==
    {[w EXCEPT !.dice = @ \o w.ev_purchase, !.ev_purchase = <<>>]}

----------------------------------------------------------------------------
(* Rolling *)

\* enum RollAction, the buttons (ThrowPower is an axis and moves no state of
\* the model)
RollAction == {"HighlightLeft", "HighlightRight", "Throw", "Placement"}

\* handle_input: the guard of the Placement action
CanEnterPlacementAlways(ts) == TRUE
CanEnterPlacementInverted(ts) == ts = <<>>
CanEnterPlacement(ts) == ts # <<>>

\* handle_input: the next state the Placement action requests
PlacementNext == Placement

\* handle_input: pressed is the set of actions just_pressed in this frame.
\* With no dice the highlight arithmetic divides by zero, and Throw indexes
\* the Vec out of bounds whenever the highlight is not below its length: both
\* panic.
handle_input_on(w, pressed) ==
    LET n == Len(w.dice)
        left == IF "HighlightLeft" \in pressed
                THEN WrapPrev(w.highlighted_die, n) ELSE w.highlighted_die
        right == IF "HighlightRight" \in pressed THEN WrapNext(left, n) ELSE left
        idx == right
        throw == /\ "Throw" \in pressed
                 /\ w.dice[idx + 1].result = None
                 /\ ~w.dice[idx + 1].rolling
        thrown == [w.dice EXCEPT ![idx + 1].rolling = TRUE]
    IN  IF \/ n = 0 /\ pressed \cap {"HighlightLeft", "HighlightRight"} # {}
           \/ "Throw" \in pressed /\ idx >= n
        THEN [w EXCEPT !.panicked = TRUE]
        ELSE [w EXCEPT !.highlighted_die = idx,
                       !.dice = IF throw THEN thrown ELSE @,
                       !.ev_rolled = IF throw THEN Append(@, thrown[idx + 1]) ELSE @,
                       !.ev_thrown = IF throw
                                     THEN Append(@, [die |-> thrown[idx + 1], age |-> 0])
                                     ELSE @,
                       !.nextState = IF /\ "Placement" \in pressed
                                        /\ CanEnterPlacement(w.towers)
                                     THEN PlacementNext ELSE @]

handle_input(w) == {handle_input_on(w, pressed) : pressed \in SUBSET RollAction}

\* die_rolled: the towers of the catalog with the rolled element
MatchingAny(element) == DOMAIN tower_assets
Matching(element) == {id \in DOMAIN tower_assets : tower_assets[id] = element}

\* Die::roll: the face it draws is one of the die's faces
Roll(die) == {die.faces[i] : i \in DOMAIN die.faces}

\* die_rolled on one DieRolledEvent: the rolled die replaces the highlighted
\* one (dice[idx] panics when idx is out of bounds), a tower of the rolled
\* element is chosen (unwrap() panics when there is none) and pushed, and the
\* result is sent
die_rolled_one(w, ev) ==
    IF w.panicked THEN {w}
    ELSE UNION {
           LET die == [ev EXCEPT !.result = Some(face)]
               idx == w.highlighted_die
           IN  IF idx >= Len(w.dice) \/ Matching(face.primary_type) = {}
               THEN {[w EXCEPT !.panicked = TRUE]}
               ELSE {[w EXCEPT !.dice[idx + 1] = die,
                               !.towers = Append(@, id),
                               !.ev_result = Append(@, [die |-> die, face |-> face,
                                                        age |-> 0]),
                               !.unlocked = TRUE] :
                        id \in Matching(face.primary_type)} :
           face \in Roll(ev)}

\* die_rolled: every unread DieRolledEvent, one after the other
RECURSIVE die_rolled_each(_, _)
die_rolled_each(evs, ws) ==
    IF evs = <<>> THEN ws
    ELSE die_rolled_each(Tail(evs), UNION {die_rolled_one(w, Head(evs)) : w \in ws})

die_rolled(w) == die_rolled_each(w.ev_rolled, {[w EXCEPT !.ev_rolled = <<>>]})

\* save_die_result: the first owned die equal to the event's die gets the
\* event's face as its result
RECURSIVE FirstEqual(_, _, _)
FirstEqual(ds, d, i) ==
    IF i > Len(ds) THEN 0
    ELSE IF DieEq(ds[i], d) THEN i
    ELSE FirstEqual(ds, d, i + 1)

SaveOne(ds, ev) ==
    LET i == FirstEqual(ds, ev.die, 1)
    IN  IF i = 0 THEN ds ELSE [ds EXCEPT ![i].result = Some(ev.face)]

RECURSIVE SaveAll(_, _)
SaveAll(ds, evs) ==
    IF evs = <<>> THEN ds ELSE SaveAll(SaveOne(ds, Head(evs)), Tail(evs))

save_die_result(w) ==
    {[w EXCEPT !.dice = SaveAll(@, w.ev_result), !.ev_result = <<>>]}

----------------------------------------------------------------------------
(* Placement *)

\* toggle_placeholder_type: just_pressed(ToggleTowerType)
toggle_placeholder_type_on(w, pressed) ==
    IF ~pressed THEN w
    ELSE IF Len(w.towers) = 0 THEN [w EXCEPT !.panicked = TRUE]
    ELSE [w EXCEPT !.highlighted_tower = WrapNext(@, Len(w.towers))]

toggle_placeholder_type(w) ==
    {toggle_placeholder_type_on(w, pressed) : pressed \in BOOLEAN}

\* start_wave: just_pressed(EndPlacement)
start_wave_on(w, pressed) ==
    IF ~pressed THEN w
    ELSE [w EXCEPT !.commands.spawn_wave = @ + 1, !.nextState = Wave]

start_wave(w) == {start_wave_on(w, pressed) : pressed \in BOOLEAN}

----------------------------------------------------------------------------
(* Wave *)

\* Timer::tick of a TimerMode::Once timer: the elapsed time stops at the
\* duration, and a finished timer stays finished
TickOnce(elapsed, duration, dt) ==
    IF elapsed >= duration THEN elapsed
    ELSE IF elapsed + dt >= duration THEN duration ELSE elapsed + dt

\* Timer::tick of a TimerMode::Repeating timer: the elapsed time wraps
TickRepeating(elapsed, duration, dt) == (elapsed + dt) % duration

\* Timer::finished after that tick
FinishedRepeating(elapsed, duration, dt) == elapsed + dt >= duration

\* spawn_enemy
spawn_enemy(w) ==
    LET total == TickOnce(w.spawner.total_time, Secs(w, SpawnTotalSecs), w.delta)
    IN  IF total >= Secs(w, SpawnTotalSecs)
        THEN {[w EXCEPT !.spawner.total_time = total]}
        ELSE {[w EXCEPT !.spawner =
                            [total_time |-> total,
                             delta |-> TickRepeating(w.spawner.delta, Secs(w, SpawnSecs),
                                                     w.delta)],
                        !.commands.spawn_enemy =
                            IF FinishedRepeating(w.spawner.delta, Secs(w, SpawnSecs), w.delta)
                            THEN @ + 1 ELSE @]}

\* find_path and move_enemy: every enemy advances one step towards the goal
move_enemy(w) ==
    {[w EXCEPT !.enemies = {[e EXCEPT !.pos = IF @ > 0 THEN @ - 1 ELSE 0] : e \in @}]}

\* target_death: the enemies whose health is 0
Dead(es) == {e \in es : e.health = 0}

\* target_death: what one dead enemy credits
RewardTwice == 2 * KillReward
Reward == KillReward

\* the entity ids of a set of entities
Ids(es) == {e.id : e \in es}

\* target_death: the projectiles whose target is no entity of the enemy query
OrphansNone(ps, es) == {}
OrphansArrived(ps, es) == {p \in ps : p.target \notin Ids(es) /\ p.dist = 0}
Orphans(ps, es) == {p \in ps : p.target \notin Ids(es)}

\* target_death: every enemy at health 0 is despawned and credits the
\* reward; every projectile without its target is despawned
target_death(w) ==
    {[w EXCEPT !.money = @ + Reward * Cardinality(Dead(w.enemies)),
               !.commands.dead = @ \cup Ids(Dead(w.enemies)),
               !.commands.despawn_projectile =
                   @ \cup Ids(Orphans(w.projectiles, w.enemies))]}

\* enemy_goal_collision: the enemies within reach of the goal are despawned
enemy_goal_collision(w) ==
    {[w EXCEPT !.commands.goal = @ \cup Ids({x \in w.enemies : x.pos = 0})]}

\* tower_shooting: distance < 5.0; a tower's range is the number of steps
\* from the goal up to which the path is within its reach
InRange(tower, enemy) == enemy.pos <= tower.range

\* tower_shooting, for one enemy: every tower's attack_speed ticks; a tower
\* whose timer finished with the enemy in range fires at it and resets
Fires(tower, enemy, w) ==
    /\ FinishedRepeating(tower.attack_speed, Secs(w, AttackSecs), w.delta)
    /\ InRange(tower, enemy)

ShootAt(w, enemy) ==
    LET firing == {i \in DOMAIN w.placed : Fires(w.placed[i], enemy, w)}
    IN  [w EXCEPT
           !.placed = [i \in DOMAIN @ |->
                         [@[i] EXCEPT !.attack_speed =
                             IF i \in firing THEN 0
                             ELSE TickRepeating(@, Secs(w, AttackSecs), w.delta)]],
           !.commands.spawn_projectile =
               @ \o [k \in 1..Cardinality(firing) |-> enemy.id]]

\* the entities of es one after the other, by id
Least(ids) == CHOOSE n \in ids : \A m \in ids : n <= m

RECURSIVE ShootAll(_, _)
ShootAll(w, ids) ==
    IF ids = {} THEN w
    ELSE LET enemy == CHOOSE e \in w.enemies : e.id = Least(ids)
         IN  ShootAll(ShootAt(w, enemy), ids \ {enemy.id})

tower_shooting(w) == {ShootAll(w, Ids(w.enemies))}

\* move_projectile: a projectile whose target is alive flies a step towards
\* it, and is despawned when it has arrived; dist counts the steps left,
\* 0 within touch of the target
move_projectile(w) ==
    LET homing == {p \in w.projectiles : p.target \in Ids(w.enemies)}
    IN  {[w EXCEPT
            !.projectiles = {IF p \in homing /\ p.dist > 0
                             THEN [p EXCEPT !.dist = @ - 1] ELSE p : p \in @},
            !.commands.despawn_projectile =
                @ \cup Ids({p \in homing : p.dist = 0})]}

\* bullet_despawn: the lifetime ticks; just_finished despawns the projectile
bullet_despawn(w) ==
    {[w EXCEPT
        !.projectiles = {[p EXCEPT !.lifetime =
                                       TickOnce(@, Secs(w, LifetimeSecs), w.delta)]
                           : p \in @},
        !.commands.despawn_projectile =
            @ \cup Ids({p \in w.projectiles :
                           /\ p.lifetime < Secs(w, LifetimeSecs)
                           /\ TickOnce(p.lifetime, Secs(w, LifetimeSecs), w.delta)
                                 >= Secs(w, LifetimeSecs)})]}

\* bullet_collision: enemy.health.checked_sub(projectile.damage).unwrap_or_default()
DamageHeals(health, damage) == IF damage <= health THEN health - damage ELSE health
Damage(health, damage) == IF damage <= health THEN health - damage ELSE 0

\* bullet_collision: the projectiles within 0.4 of an enemy
Touching(ps, es) == {p \in ps : p.dist = 0 /\ p.target \in Ids(es)}

StruckTwice(health, hits) == Damage(health, 2 * ProjectileDamage * Cardinality(hits))

\* the health of an enemy once the projectiles of hits have struck it, one
\* after the other
RECURSIVE Struck(_, _)
Struck(health, hits) ==
    IF hits = {} THEN health
    ELSE LET p == CHOOSE x \in hits : x.id = Least(Ids(hits))
         IN  Struck(Damage(health, p.damage), hits \ {p})

\* bullet_collision: every projectile that touches an enemy is despawned
\* and takes its damage off the enemy's health
bullet_collision(w) ==
    LET hits == Touching(w.projectiles, w.enemies)
    IN  {[w EXCEPT
            !.enemies = {[e EXCEPT !.health =
                             Struck(@, {p \in hits : p.target = e.id})] : e \in @},
            !.commands.despawn_projectile = @ \cup Ids(hits)]}

\* end_wave: the next state a finished wave requests
EndWaveNextSkips == Rolling
EndWaveNext == Economy

\* end_wave: wave.timer.finished() && enemy_query.is_empty()
WaveOverIgnoresEnemies(finished, es) == finished
WaveOverNever(finished, es) == FALSE
WaveOver(finished, es) == finished /\ es = {}

\* end_wave: every Wave entity's timer ticks; a finished one ends the wave
\* when no enemy is left
end_wave(w) ==
    LET ticked == [i \in 1..Len(w.waves) |-> TickOnce(w.waves[i], Secs(w, WaveSecs),
                                                       w.delta)]
    IN  {[w EXCEPT !.waves = ticked,
                   !.nextState = IF \E i \in 1..Len(ticked) :
                                       WaveOver(ticked[i] >= Secs(w, WaveSecs), w.enemies)
                                 THEN EndWaveNext ELSE @]}

----------------------------------------------------------------------------
(* The physical die *)

\* handle_dice_roll: a PhysicalDie is spawned for every DieRolledEvent the
\* system has not read; the spawn is deferred to the end of the frame
handle_dice_roll(w) ==
    {[w EXCEPT !.commands.spawn_die =
                   @ \o [i \in 1..Len(w.ev_thrown) |-> w.ev_thrown[i].die],
               !.ev_thrown = <<>>]}

\* check_dice_result: the condition that ends a roll.  rests: both the
\* linear and the angular velocity are below 0.1; finished: the timeout
\* timer has finished with this frame's tick.
SettledNoTimeout(rests, finished) == rests
Settled(rests, finished) == rests \/ finished

\* The orientation of a die, as far as determine_face_up reads it: the dot
\* products of the die's local X, Y and Z axes with the up vector, in units
\* of 1 / MaxDot.  The three cannot all be zero.
Orientations ==
    {t \in (-MaxDot..MaxDot) \X (-MaxDot..MaxDot) \X (-MaxDot..MaxDot) :
        t # <<0, 0, 0>>}

\* f32::abs
Abs(x) == IF x < 0 THEN -x ELSE x

\* determine_face_up: the index of the face that is up
determine_face_up(t) ==
    LET dot_x == Abs(t[1])
        dot_y == Abs(t[2])
        dot_z == Abs(t[3])
    IN  IF dot_x > dot_y /\ dot_x > dot_z
        THEN (IF t[1] > 0 THEN 0 ELSE 1)
        ELSE IF dot_y > dot_x /\ dot_y > dot_z
             THEN (IF t[2] > 0 THEN 2 ELSE 3)
             ELSE (IF t[3] > 0 THEN 4 ELSE 5)

\* check_dice_result on a die that has settled in the orientation t: the
\* die stops rolling, its face_up is set, DieRollResultEvent is sent with
\* that face, and the display timer is reset.  fresh marks the die whose
\* face was selected in this frame (history).
Select(w, p, t) ==
    LET face_index == determine_face_up(t)
    IN  [w EXCEPT !.physical =
                      (@ \ {p}) \cup {[p EXCEPT !.is_rolling = FALSE,
                                               !.face_up = Some(face_index),
                                               !.display = 0,
                                               !.fresh = TRUE]},
                  !.ev_result = Append(@, [die |-> p.die_data,
                                           face |-> p.die_data.faces[face_index + 1],
                                           age |-> 0])]

\* Select reads the orientation through determine_face_up only: one
\* orientation for each face index it returns gives every world the
\* orientations can give.
Poses ==
    {CHOOSE t \in Orientations : determine_face_up(t) = i :
        i \in {determine_face_up(t) : t \in Orientations}}

\* check_dice_result on one PhysicalDie: the timeout timer ticks, and a
\* rolling die that has settled has its face selected, in the orientation
\* the physics left it in
CheckOne(w, id, rests) ==
    LET p == CHOOSE x \in w.physical : x.id = id
        elapsed == TickOnce(p.timeout, Secs(w, RollTimeoutSecs), w.delta)
        ticked == [p EXCEPT !.timeout = elapsed]
        met == [w EXCEPT !.physical = (@ \ {p}) \cup {ticked}]
    IN  IF ~p.is_rolling \/ ~Settled(rests, elapsed >= Secs(w, RollTimeoutSecs))
        THEN {met}
        ELSE {Select(met, ticked, t) : t \in Poses}

RECURSIVE CheckAll(_, _, _)
CheckAll(ws, ids, resting) ==
    IF ids = {} THEN ws
    ELSE CheckAll(UNION {CheckOne(w, Least(ids), Least(ids) \in resting) : w \in ws},
                  ids \ {Least(ids)}, resting)

\* check_dice_result: resting is the set of dice the physics has brought to
\* rest
check_dice_result_on(w, resting) == CheckAll({w}, Ids(w.physical), resting)

\* a die is thrown with a linear speed of 5 at least: it does not rest on
\* the first tick after its spawn
CanRest(w) == {p.id : p \in {x \in w.physical : x.is_rolling /\ x.timeout > 0}}

check_dice_result(w) ==
    UNION {check_dice_result_on(w, resting) : resting \in SUBSET CanRest(w)}

\* cleanup_dice: the display timer of every die ticks; a die that no longer
\* rolls is despawned on the tick its display timer finishes (just_finished)
cleanup_dice(w) ==
    LET displayed(p) == TickOnce(p.display, Secs(w, DisplaySecs), w.delta)
        gone == {p \in w.physical :
                    /\ ~p.is_rolling
                    /\ p.display < Secs(w, DisplaySecs)
                    /\ displayed(p) >= Secs(w, DisplaySecs)}
    IN  {[w EXCEPT !.physical = {[p EXCEPT !.display = displayed(p)] : p \in @},
                   !.commands.despawn_die = @ \cup Ids(gone)]}

----------------------------------------------------------------------------
(* Scheduling *)

\* the Update systems, in the order the plugins register them
SystemOrder ==
    <<"economy_ui", "toggle_placeholder_type", "start_wave", "handle_dice_roll",
      "check_dice_result", "cleanup_dice", "handle_input",
      "save_die_result", "spawn_enemy", "move_enemy", "tower_shooting",
      "move_projectile", "bullet_despawn", "bullet_collision", "target_death",
      "enemy_goal_collision", "end_wave", "die_purchased", "die_rolled">>

Pos(sys) == CHOOSE i \in DOMAIN SystemOrder : SystemOrder[i] = sys

\* GamePlugin::build: (die_purchased, die_rolled).run_if(in_state(GameState::Game))
AlwaysSystems == {"die_purchased", "die_rolled"}

\* the Update systems of EconomyPlugin, RollPlugin, PlacementPlugin and
\* WavePlugin, by the GamePlayState of their run condition
StateSystems(s) ==
    CASE s = Economy -> {"economy_ui"}
      [] s = Rolling -> {"handle_input", "save_die_result"}
      [] s = Placement -> {"toggle_placeholder_type", "start_wave"}
      [] s = Wave -> {"spawn_enemy", "move_enemy", "target_death",
                      "enemy_goal_collision", "end_wave"}

Systems(s) == AlwaysSystems \cup StateSystems(s)

\* one system on one world; nothing runs once a system has panicked
Run(sys, w) ==
    IF w.panicked THEN {w}
    ELSE CASE sys = "die_purchased" -> die_purchased(w)
           [] sys = "die_rolled" -> die_rolled(w)
           [] sys = "economy_ui" -> economy_ui(w)
           [] sys = "handle_input" -> handle_input(w)
           [] sys = "save_die_result" -> save_die_result(w)
           [] sys = "toggle_placeholder_type" -> toggle_placeholder_type(w)
           [] sys = "start_wave" -> start_wave(w)
           [] sys = "spawn_enemy" -> spawn_enemy(w)
           [] sys = "move_enemy" -> move_enemy(w)
           [] sys = "enemy_goal_collision" -> enemy_goal_collision(w)
           [] sys = "target_death" -> target_death(w)
           [] sys = "end_wave" -> end_wave(w)
           [] sys = "tower_shooting" -> tower_shooting(w)
           [] sys = "move_projectile" -> move_projectile(w)
           [] sys = "bullet_despawn" -> bullet_despawn(w)
           [] sys = "bullet_collision" -> bullet_collision(w)
           [] sys = "handle_dice_roll" -> handle_dice_roll(w)
           [] sys = "check_dice_result" -> check_dice_result(w)
           [] sys = "cleanup_dice" -> cleanup_dice(w)

\* the systems of order, one after the other, on every world of ws
RECURSIVE RunAll(_, _)
RunAll(order, ws) ==
    IF order = <<>> THEN ws
    ELSE RunAll(Tail(order), UNION {Run(Head(order), w) : w \in ws})

\* what a system reads and what it writes: the resources, events and
\* components of its parameters
Reads(sys) ==
    CASE sys = "die_purchased" -> {"ev_purchase"}
      [] sys = "die_rolled" -> {"ev_rolled", "dice", "highlighted_die"}
      [] sys = "economy_ui" -> {"shop", "money", "dice"}
      [] sys = "handle_input" -> {"dice", "highlighted_die", "towers"}
      [] sys = "save_die_result" -> {"ev_result", "dice"}
      [] sys = "toggle_placeholder_type" -> {"towers", "highlighted_tower"}
      [] sys = "start_wave" -> {}
      [] sys = "spawn_enemy" -> {"spawner"}
      [] sys = "move_enemy" -> {"enemy.transform"}
      [] sys = "enemy_goal_collision" -> {"enemy.transform"}
      [] sys = "target_death" -> {"enemy.health"}
      [] sys = "end_wave" -> {"waves"}
      [] sys = "tower_shooting" -> {"enemy.transform", "tower"}
      [] sys = "move_projectile" -> {"projectile.transform"}
      [] sys = "bullet_despawn" -> {"projectile.lifetime"}
      [] sys = "bullet_collision" -> {"projectile.transform", "enemy.health"}
      [] sys = "handle_dice_roll" -> {"ev_thrown"}
      [] sys = "check_dice_result" -> {"die.is_rolling", "die.timeout"}
      [] sys = "cleanup_dice" -> {"die.is_rolling", "die.display"}

Writes(sys) ==
    CASE sys = "die_purchased" -> {"ev_purchase", "dice"}
      [] sys = "die_rolled" -> {"ev_rolled", "dice", "towers", "ev_result"}
      [] sys = "economy_ui" -> {"shop", "money", "ev_purchase", "nextState"}
      [] sys = "handle_input" -> {"dice", "highlighted_die", "ev_rolled", "ev_thrown",
                                  "nextState"}
      [] sys = "save_die_result" -> {"ev_result", "dice"}
      [] sys = "toggle_placeholder_type" -> {"highlighted_tower"}
      [] sys = "start_wave" -> {"commands.spawn_wave", "nextState"}
      [] sys = "spawn_enemy" -> {"spawner", "commands.spawn_enemy"}
      [] sys = "move_enemy" -> {"enemy.transform"}
      [] sys = "enemy_goal_collision" -> {"commands.goal"}
      [] sys = "target_death" -> {"money", "commands.dead"}
      [] sys = "end_wave" -> {"waves", "nextState"}
      [] sys = "tower_shooting" -> {"tower", "commands.spawn_projectile"}
      [] sys = "move_projectile" -> {"projectile.transform", "commands.move_projectile"}
      [] sys = "bullet_despawn" -> {"projectile.lifetime", "commands.bullet_despawn"}
      [] sys = "bullet_collision" -> {"enemy.health", "commands.bullet_collision"}
      [] sys = "handle_dice_roll" -> {"ev_thrown", "commands.spawn_die"}
      [] sys = "check_dice_result" -> {"die.is_rolling", "die.timeout", "die.display",
                                       "ev_result"}
      [] sys = "cleanup_dice" -> {"die.display", "commands.despawn_die"}

\* two systems whose order can matter: one writes what the other reads or
\* writes
Conflict(a, b) ==
    \/ Writes(a) \cap (Reads(b) \cup Writes(b)) # {}
    \/ Writes(b) \cap Reads(a) # {}

RECURSIVE Perms(_)
Perms(S) ==
    IF S = {} THEN {<<>>}
    ELSE UNION {{<<x>> \o p : p \in Perms(S \ {x})} : x \in S}

\* The orders a frame of state s can run its systems in.  Exchanging two
\* neighbours that do not conflict gives the same frame, so of the orders
\* that differ only by such exchanges the model keeps those that have the
\* neighbours in registration order.
Orders(s) ==
    {o \in Perms(Systems(s)) :
        \A i \in 1..(Len(o) - 1) :
            Conflict(o[i], o[i + 1]) \/ Pos(o[i]) < Pos(o[i + 1])}

EconomyOrders == Orders(Economy)
RollingOrders == Orders(Rolling)
PlacementOrders == Orders(Placement)
WaveOrders == Orders(Wave)

OrdersOf(s) ==
    CASE s = Economy -> EconomyOrders
      [] s = Rolling -> RollingOrders
      [] s = Placement -> PlacementOrders
      [] s = Wave -> WaveOrders

\* Only the systems of the Wave state read the time: the model draws a
\* frame's delta only there.
FrameDeltas(s) == IF s = Wave THEN Deltas ELSE {MinDelta}

\* the worlds the system sys can meet in a frame that starts from the
\* current state: those the systems that run before it can leave
Before(order, sys) ==
    SubSeq(order, 1, (CHOOSE i \in DOMAIN order : order[i] = sys) - 1)

Meets(sys) ==
    UNION {RunAll(Before(o, sys), {World(dt) : dt \in FrameDeltas(state)}) :
             o \in OrdersOf(state)}

----------------------------------------------------------------------------
(* The end of a frame *)

\* World::spawn: the new entity takes the smallest id that is free; an id
\* some Entity still refers to is not free (its generation has changed)
FreeId(used) == CHOOSE n \in 1..(Cardinality(used) + 1) : n \notin used

\* spawn_enemy's deferred spawn: the Enemy of the catalog's first entry, at
\* the spawner's transform
RECURSIVE Spawned(_, _, _)
Spawned(es, n, held) ==
    IF n = 0 THEN es
    ELSE Spawned(es \cup {[id |-> FreeId(Ids(es) \cup held),
                           health |-> enemy_health, pos |-> PathSteps]},
                 n - 1, held)

\* tower_shooting's deferred spawns: a Projectile for every target of the
\* sequence, at its tower's transform
RECURSIVE Shot(_, _, _)
Shot(ps, targets, held) ==
    IF targets = <<>> THEN ps
    ELSE Shot(ps \cup {[id |-> FreeId(Ids(ps) \cup held), target |-> Head(targets),
                        damage |-> ProjectileDamage, lifetime |-> 0,
                        dist |-> ProjectileSteps]},
              Tail(targets), held)

\* handle_dice_roll's deferred spawns: a PhysicalDie for every die of the
\* sequence, rolling, its timers at zero
RECURSIVE Thrown(_, _, _)
Thrown(ps, ds, held) ==
    IF ds = <<>> THEN ps
    ELSE Thrown(ps \cup {[id |-> FreeId(Ids(ps) \cup held), die_data |-> Head(ds),
                          is_rolling |-> TRUE, face_up |-> None,
                          timeout |-> 0, display |-> 0,
                          fresh |-> FALSE, shown |-> 0]},
                Tail(ds), held)

\* shown counts the seconds a die has been on display since the frame its
\* face was selected in (history)
Shown(ps, dt) ==
    {[p EXCEPT !.shown = IF p.is_rolling \/ p.fresh THEN 0 ELSE @ + dt,
               !.fresh = FALSE] : p \in ps}

\* Events::update: an event is readable in the frame it was sent in and in
\* the next one
Aged(evs) ==
    LET kept == SelectSeq(evs, LAMBDA ev : ev.age = 0)
    IN  [i \in 1..Len(kept) |-> [kept[i] EXCEPT !.age = 1]]

\* OnEnter(GamePlayState::Placement) setup: towers.get(highlighted_tower).unwrap()
SetupPanics(w) == w.highlighted_tower >= Len(w.towers)

\* Every system of the frame has run.  The deferred commands are applied,
\* the events age, and the requested state change takes place
\* (StateTransition, with the OnEnter schedule of the new state).  A panic
\* leaves the world as the panicking system met it.
EndOfFrame(w) ==
    IF w.panicked THEN w
    ELSE [w EXCEPT
            !.waves = @ \o [i \in 1..w.commands.spawn_wave |-> 0],
            !.enemies = Spawned({e \in @ : e.id \notin w.commands.dead \cup w.commands.goal},
                                w.commands.spawn_enemy,
                                Ids(w.enemies) \cup {p.target : p \in w.projectiles}),
            !.projectiles = Shot({p \in @ : p.id \notin w.commands.despawn_projectile},
                                 w.commands.spawn_projectile, Ids(w.projectiles)),
            !.physical = IF w.state = Rolling /\ w.nextState # NoState THEN {}
                         ELSE Thrown(Shown({p \in @ : p.id \notin w.commands.despawn_die},
                                           w.delta),
                                     w.commands.spawn_die, Ids(w.physical)),
            !.ev_thrown = Aged(@),
            !.ev_result = Aged(@),
            !.state = IF w.nextState = NoState THEN @ ELSE w.nextState,
            !.panicked = (w.nextState = Placement /\ SetupPanics(w)),
            !.unlocked = IF w.nextState = Rolling THEN FALSE ELSE @]

\* the variables take the values of the world w
Becomes(w) ==
    /\ state' = w.state
    /\ panicked' = w.panicked
    /\ money' = w.money
    /\ dice' = w.dice
    /\ highlighted_die' = w.highlighted_die
    /\ towers' = w.towers
    /\ highlighted_tower' = w.highlighted_tower
    /\ shop_highlighted' = w.shop_highlighted
    /\ ev_purchase' = w.ev_purchase
    /\ ev_rolled' = w.ev_rolled
    /\ ev_result' = w.ev_result
    /\ waves' = w.waves
    /\ spawner' = w.spawner
    /\ enemies' = w.enemies
    /\ placed' = w.placed
    /\ projectiles' = w.projectiles
    /\ physical' = w.physical
    /\ ev_thrown' = w.ev_thrown
    /\ unlocked' = w.unlocked
    /\ UNCHANGED <<shop_items, tower_assets, enemy_health, builder>>

\* the game goes on: no system has panicked, and the MaxWaves rounds the
\* model follows are not over
Running == ~panicked /\ ~(state = Economy /\ Len(waves) >= MaxWaves)

\* one frame in state s: the systems of s run in one of their orders
\* The physical die is outside the frames of Frame: a thrown die stays
\* unread by handle_dice_roll and no PhysicalDie entity is spawned.
NoPhysics(w) == [w EXCEPT !.ev_thrown = <<>>, !.physical = {}]

Frame(s) ==
    /\ state = s
    /\ Running
    /\ \E w \in UNION {RunAll(o, {World(dt) : dt \in FrameDeltas(s)}) :
                          o \in OrdersOf(s)} :
          Becomes(NoPhysics(EndOfFrame(w)))

EconomyFrame == Frame(Economy)
RollingFrame == Frame(Rolling)
PlacementFrame == Frame(Placement)
WaveFrame == Frame(Wave)

----------------------------------------------------------------------------
(* A wave fought with towers *)

\* place_tower is commented out in placement.rs, and no Tower entity exists
\* in a run of Spec: tower_shooting, move_projectile, bullet_despawn and
\* bullet_collision have nothing to work on there.  CombatSpec follows a
\* wave from the frame start_wave has started it in, with the Tower
\* entities place_tower spawns standing on the map.

\* the enemy catalog's health values the fought wave draws from: below,
\* equal to, above and twice the damage of a projectile
CombatHealths == {3, 5, 7, 10}

\* place_tower: Tower { attack_speed: Timer::from_seconds(1.0, Repeating) },
\* at the placeholder's transform
PlacedTowers ==
    UNION {[1..n -> [attack_speed : {0}, range : 1..PathSteps]] : n \in 1..MaxTowers}

\* The first wave has just started: one die bought, thrown and resolved, its
\* tower unlocked, EndPlacement pressed.
CombatInit ==
    /\ state = Wave
    /\ panicked = FALSE
    /\ money = InitialMoney - DieValue
    /\ shop_items = [i \in 1..MaxShop |-> BuildDie(ShopTypes[i], FALSE)]
    /\ shop_highlighted = 0
    /\ dice = <<[shop_items[1] EXCEPT !.result = Some(shop_items[1].faces[1]),
                                     !.rolling = TRUE]>>
    /\ highlighted_die = 0
    /\ tower_assets \in TowerCatalogs
    /\ towers = <<CHOOSE id \in Matching(dice[1].faces[1].primary_type) : TRUE>>
    /\ highlighted_tower = 0
    /\ enemy_health \in CombatHealths
    /\ ev_purchase = <<>>
    /\ ev_rolled = <<>>
    /\ ev_result = <<>>
    /\ waves = <<0>>
    /\ spawner = [delta |-> 0, total_time |-> 0]
    /\ enemies = {}
    /\ placed \in PlacedTowers
    /\ projectiles = {}
    /\ physical = {}
    /\ ev_thrown = <<>>
    /\ builder = None
    /\ unlocked = TRUE

\* the Wave systems whose order can matter, and those that share nothing
\* with any other system of the frame
CombatDependent ==
    {"move_enemy", "tower_shooting", "move_projectile", "bullet_collision",
     "target_death", "enemy_goal_collision"}
CombatIndependent ==
    <<"spawn_enemy", "bullet_despawn", "end_wave", "die_purchased", "die_rolled">>

\* The orders a frame of the fought wave can run its systems in, reduced as
\* in Orders; the systems that share nothing run last.
CombatOrders ==
    {o \o CombatIndependent :
        o \in {q \in Perms(CombatDependent) :
                  \A i \in 1..(Len(q) - 1) :
                      Conflict(q[i], q[i + 1]) \/ Pos(q[i]) < Pos(q[i + 1])}}

\* the worlds a frame of the fought wave can leave when its systems have
\* run, and the worlds the system sys can meet in it
CombatWorlds == UNION {RunAll(o, {World(CombatDelta)}) : o \in CombatOrders}

CombatMeets(sys) ==
    UNION {RunAll(Before(o, sys), {World(CombatDelta)}) : o \in CombatOrders}

\* one frame of the fought wave
CombatFrame ==
    /\ state = Wave
    /\ ~panicked
    /\ \E w \in CombatWorlds : Becomes(EndOfFrame(w))

CombatNext == CombatFrame

CombatSpec == CombatInit /\ [][CombatNext]_vars

----------------------------------------------------------------------------
(* The Rolling phase with its physical dice *)

\* Rolling has just been entered with two dice bought in the shop, a Fire
\* and a Water die, none of them thrown yet.
RollInit ==
    /\ state = Rolling
    /\ panicked = FALSE
    /\ money = InitialMoney - 2 * DieValue
    /\ shop_items = [i \in 1..MaxShop |-> BuildDie(ShopTypes[i], FALSE)]
    /\ shop_highlighted = 1
    /\ dice = <<shop_items[1], shop_items[2]>>
    /\ highlighted_die = 0
    /\ tower_assets \in TowerCatalogs
    /\ towers = <<>>
    /\ highlighted_tower = 0
    /\ enemy_health \in 1..MaxEnemyHealth
    /\ ev_purchase = <<>>
    /\ ev_rolled = <<>>
    /\ ev_result = <<>>
    /\ waves = <<>>
    /\ spawner = [delta |-> 0, total_time |-> 0]
    /\ enemies = {}
    /\ placed = <<>>
    /\ projectiles = {}
    /\ physical = {}
    /\ ev_thrown = <<>>
    /\ builder = None
    /\ unlocked = FALSE

\* the Rolling systems whose order can matter, and the one that shares
\* nothing with any other system of the frame
RollDependent ==
    {"handle_dice_roll", "check_dice_result", "cleanup_dice", "handle_input",
     "save_die_result", "die_rolled"}
RollIndependent == <<"die_purchased">>

\* The orders a Rolling frame can run its systems in, reduced as in Orders.
RollOrders ==
    {o \o RollIndependent :
        o \in {q \in Perms(RollDependent) :
                  \A i \in 1..(Len(q) - 1) :
                      Conflict(q[i], q[i + 1]) \/ Pos(q[i]) < Pos(q[i + 1])}}

\* No system reads PhysicalDie.face_up: the frames of RollFrame do not keep
\* it.
NoFaceUp(w) == [w EXCEPT !.physical = {[p EXCEPT !.face_up = None] : p \in @}]

\* the systems of order, one after the other, on every world of ws, face_up
\* not kept
RECURSIVE RollRunAll(_, _)
RollRunAll(order, ws) ==
    IF order = <<>> THEN ws
    ELSE RollRunAll(Tail(order),
                    IF Head(order) = "check_dice_result"
                    THEN {NoFaceUp(x) : x \in UNION {Run(Head(order), w) : w \in ws}}
                    ELSE UNION {Run(Head(order), w) : w \in ws})

\* the worlds a Rolling frame can leave when its systems have run, and the
\* worlds the system sys can meet in it
RollWorlds == UNION {RollRunAll(o, {World(RollDelta)}) : o \in RollOrders}

RollMeets(sys) ==
    UNION {RollRunAll(Before(o, sys), {World(RollDelta)}) : o \in RollOrders}

\* one frame of the Rolling phase
RollFrame ==
    /\ state = Rolling
    /\ ~panicked
    /\ \E w \in RollWorlds : Becomes(EndOfFrame(w))

\* a frame after the Rolling phase in which the player presses nothing:
\* of the systems that run, die_purchased and die_rolled act
AfterRollFrame ==
    /\ state = Placement
    /\ ~panicked
    /\ \E w \in RunAll(<<"die_purchased", "die_rolled">>, {World(RollDelta)}) :
          Becomes(EndOfFrame(w))

RollNext ==
    \/ RollFrame
    \/ AfterRollFrame

RollSpec == RollInit /\ [][RollNext]_vars

----------------------------------------------------------------------------
(* The face of a thrown die *)

\* Rolling, one Fire die owned: it has just been thrown, die_rolled has
\* resolved the request and unlocked its tower, and the physical die is in
\* flight.
FaceInit ==
    /\ state = Rolling
    /\ panicked = FALSE
    /\ money = InitialMoney - DieValue
    /\ shop_items = [i \in 1..MaxShop |-> BuildDie(ShopTypes[i], FALSE)]
    /\ shop_highlighted = 0
    /\ dice = <<[shop_items[1] EXCEPT !.result = Some(shop_items[1].faces[1]),
                                     !.rolling = TRUE]>>
    /\ highlighted_die = 0
    /\ tower_assets \in TowerCatalogs
    /\ towers = <<CHOOSE id \in Matching(dice[1].faces[1].primary_type) : TRUE>>
    /\ highlighted_tower = 0
    /\ enemy_health \in 1..MaxEnemyHealth
    /\ ev_purchase = <<>>
    /\ ev_rolled = <<>>
    /\ ev_result = <<>>
    /\ waves = <<>>
    /\ spawner = [delta |-> 0, total_time |-> 0]
    /\ enemies = {}
    /\ placed = <<>>
    /\ projectiles = {}
    /\ physical = Thrown({}, <<[shop_items[1] EXCEPT !.rolling = TRUE]>>, {})
    /\ ev_thrown = <<>>
    /\ builder = None
    /\ unlocked = TRUE

\* the worlds a Rolling frame can leave and the worlds the system sys can
\* meet in it, face_up kept
FaceWorlds == UNION {RunAll(o, {World(RollDelta)}) : o \in RollOrders}

FaceMeets(sys) ==
    UNION {RunAll(Before(o, sys), {World(RollDelta)}) : o \in RollOrders}

\* one frame of the Rolling phase, face_up kept
FaceFrame ==
    /\ state = Rolling
    /\ ~panicked
    /\ \E w \in FaceWorlds : Becomes(EndOfFrame(w))

FaceNext ==
    \/ FaceFrame
    \/ AfterRollFrame

FaceSpec == FaceInit /\ [][FaceNext]_vars

----------------------------------------------------------------------------
(* The die builder *)

\* the element draws the rejection loop of DieFace::generate can make for a
\* base element: the base again and again, then an element that differs
DrawSeqs(base_element) ==
    {d \in UNION {[1..n -> DOMAIN GenElements] : n \in 1..MaxDraws} :
        /\ GenElements[d[Len(d)]] # base_element
        /\ \A k \in 1..(Len(d) - 1) : GenElements[d[k]] = base_element}

\* EconomyPlugin::build is about to build a shop die: a DieBuilder of some
\* base face, no face generated yet.  rolls records the outcomes of the two
\* gen_bool draws of each face (history).
GenInit ==
    /\ state = Economy
    /\ panicked = FALSE
    /\ money = InitialMoney
    /\ dice = <<>>
    /\ highlighted_die = 0
    /\ towers = <<>>
    /\ highlighted_tower = 0
    /\ shop_items = <<>>
    /\ shop_highlighted = 0
    /\ tower_assets \in TowerCatalogs
    /\ enemy_health \in 1..MaxEnemyHealth
    /\ ev_purchase = <<>>
    /\ ev_rolled = <<>>
    /\ ev_result = <<>>
    /\ waves = <<>>
    /\ spawner = [delta |-> 0, total_time |-> 0]
    /\ enemies = {}
    /\ placed = <<>>
    /\ projectiles = {}
    /\ physical = {}
    /\ ev_thrown = <<>>
    /\ unlocked = FALSE
    /\ \E e \in BaseElementType, i \in DOMAIN Rarity :
          builder = Some([base_face |-> DieFace(e, Rarity[i]), size |-> BuiltFaces,
                          faces |-> <<>>, rolls |-> <<>>])

\* DieBuilder::build, one turn of its loop: a generated face is pushed
BuildFace ==
    /\ builder # None
    /\ Len(builder[1].faces) < builder[1].size
    /\ \E change \in BOOLEAN, upgrade \in BOOLEAN,
          draws \in DrawSeqs(builder[1].base_face.primary_type) :
          builder' = Some([builder[1] EXCEPT
                              !.faces = Append(@, Generate(builder[1].base_face.primary_type,
                                                           builder[1].base_face.rarity,
                                                           change, draws, upgrade)),
                              !.rolls = Append(@, [change |-> change,
                                                   upgrade |-> upgrade])])
    /\ UNCHANGED <<state, panicked, money, dice, highlighted_die, towers,
                   highlighted_tower, shop_items, shop_highlighted, tower_assets,
                   enemy_health, ev_purchase, ev_rolled, ev_result, waves, spawner,
                   enemies, placed, projectiles, physical, ev_thrown, unlocked>>

\* DieBuilder::build, after its loop: the Die is returned and becomes a shop
\* item
BuildReturn ==
    /\ builder # None
    /\ Len(builder[1].faces) = builder[1].size
    /\ shop_items' = Append(shop_items, [faces |-> builder[1].faces, value |-> DieValue,
                                         result |-> None, rolling |-> FALSE])
    /\ builder' = None
    /\ UNCHANGED <<state, panicked, money, dice, highlighted_die, towers,
                   highlighted_tower, shop_highlighted, tower_assets,
                   enemy_health, ev_purchase, ev_rolled, ev_result, waves, spawner,
                   enemies, placed, projectiles, physical, ev_thrown, unlocked>>

GenNext ==
    \/ BuildFace
    \/ BuildReturn

GenSpec == GenInit /\ [][GenNext]_vars

----------------------------------------------------------------------------
(* A wave in frames shorter than the towers' cooldown *)

\* The first wave has just started, as in CombatInit, with the enemies of
\* the highest health.
ShootInit ==
    /\ CombatInit
    /\ \A h \in CombatHealths : h <= enemy_health

\* the world a frame starts from, the time counted in units of 1 / ShootRate
\* second
ShootWorld == [World(ShootDelta) EXCEPT !.rate = ShootRate]

\* the worlds a frame of the wave can leave when its systems have run, and
\* the worlds the system sys can meet in it
ShootWorlds == UNION {RunAll(o, {ShootWorld}) : o \in CombatOrders}

ShootMeets(sys) == UNION {RunAll(Before(o, sys), {ShootWorld}) : o \in CombatOrders}

\* one frame of the wave
ShootFrame ==
    /\ state = Wave
    /\ ~panicked
    /\ \E w \in ShootWorlds : Becomes(EndOfFrame(w))

ShootNext == ShootFrame

ShootSpec == ShootInit /\ [][ShootNext]_vars

----------------------------------------------------------------------------
(* Rolling with a tower catalog that lacks an element *)

\* tower catalogs without a Water tower (the asset files are not part of
\* the sources)
SparseCatalogs == { <<"Fire">>, <<"Fire", "Earth", "Wind">> }

\* Rolling has just been entered with a Fire and a Water die, as in
\* RollInit, under a catalog that has no tower for one of them.
SparseInit ==
    /\ state = Rolling
    /\ panicked = FALSE
    /\ money = InitialMoney - 2 * DieValue
    /\ shop_items = [i \in 1..MaxShop |-> BuildDie(ShopTypes[i], FALSE)]
    /\ shop_highlighted = 1
    /\ dice = <<shop_items[1], shop_items[2]>>
    /\ highlighted_die = 0
    /\ tower_assets \in SparseCatalogs
    /\ towers = <<>>
    /\ highlighted_tower = 0
    /\ enemy_health \in 0..MaxEnemyHealth
    /\ ev_purchase = <<>>
    /\ ev_rolled = <<>>
    /\ ev_result = <<>>
    /\ waves = <<>>
    /\ spawner = [delta |-> 0, total_time |-> 0]
    /\ enemies = {}
    /\ placed = <<>>
    /\ projectiles = {}
    /\ physical = {}
    /\ ev_thrown = <<>>
    /\ unlocked = FALSE
    /\ builder = None

SparseNext ==
    \/ RollFrame
    \/ AfterRollFrame

SparseSpec == SparseInit /\ [][SparseNext]_vars

----------------------------------------------------------------------------
(* DieFace::generate, step by step *)

\* the test of the rejection loop: a drawn element equal to the base is
\* drawn again
RejectedAlways(new_element, base_element) == TRUE

Rejected(new_element, base_element) == new_element = base_element

\* the variables DieFace::generate leaves alone
GenerateFrame ==
    UNCHANGED <<state, panicked, money, dice, highlighted_die, towers,
                highlighted_tower, shop_items, shop_highlighted, tower_assets,
                enemy_health, ev_purchase, ev_rolled, ev_result, waves, spawner,
                enemies, placed, projectiles, physical, ev_thrown, unlocked>>

\* DieFace::generate has been called with some base element and rarity and
\* has drawn nothing yet.  pc is its position, new_element the last draw of
\* the loop, final_element and face its results; rejected records that the
\* loop has drawn the base element (history).
DrawInit ==
    /\ state = Economy
    /\ panicked = FALSE
    /\ money = InitialMoney
    /\ dice = <<>>
    /\ highlighted_die = 0
    /\ towers = <<>>
    /\ highlighted_tower = 0
    /\ shop_items = <<>>
    /\ shop_highlighted = 0
    /\ tower_assets \in TowerCatalogs
    /\ enemy_health \in 1..MaxEnemyHealth
    /\ ev_purchase = <<>>
    /\ ev_rolled = <<>>
    /\ ev_result = <<>>
    /\ waves = <<>>
    /\ spawner = [delta |-> 0, total_time |-> 0]
    /\ enemies = {}
    /\ placed = <<>>
    /\ projectiles = {}
    /\ physical = {}
    /\ ev_thrown = <<>>
    /\ unlocked = FALSE
    /\ \E e \in BaseElementType, i \in DOMAIN Rarity :
          builder = Some([base_element |-> e, base_rarity |-> Rarity[i],
                          pc |-> "change", new_element |-> None,
                          final_element |-> None, face |-> None,
                          rejected |-> FALSE])

\* rng.gen_bool(0.25): the loop is entered, or the base element is kept
GenChange ==
    /\ builder # None
    /\ builder[1].pc = "change"
    /\ \E change \in BOOLEAN :
          builder' = Some(IF change
                             THEN [builder[1] EXCEPT !.pc = "loop"]
                             ELSE [builder[1] EXCEPT
                                      !.pc = "rarity",
                                      !.final_element = Some(builder[1].base_element)])
    /\ GenerateFrame

\* one turn of the loop that draws the base element: the loop goes on
DrawSame ==
    /\ builder # None
    /\ builder[1].pc = "loop"
    /\ \E k \in DOMAIN GenElements :
          /\ Rejected(GenElements[k], builder[1].base_element)
          /\ builder' = Some([builder[1] EXCEPT !.new_element = Some(GenElements[k]),
                                                !.rejected = TRUE])
    /\ GenerateFrame

\* one turn of the loop that draws another element: break new_element
DrawDifferent ==
    /\ builder # None
    /\ builder[1].pc = "loop"
    /\ \E k \in DOMAIN GenElements :
          /\ ~Rejected(GenElements[k], builder[1].base_element)
          /\ builder' = Some([builder[1] EXCEPT !.new_element = Some(GenElements[k]),
                                                !.final_element = Some(GenElements[k]),
                                                !.pc = "rarity"])
    /\ GenerateFrame

\* rng.gen_bool(0.05), the rarity match, and the DieFace returned
GenRarity ==
    /\ builder # None
    /\ builder[1].pc = "rarity"
    /\ \E upgrade \in BOOLEAN :
          builder' = Some([builder[1] EXCEPT
                              !.pc = "done",
                              !.face = Some(DieFace(builder[1].final_element[1],
                                                    IF upgrade
                                                       THEN UpgradeRarity(builder[1].base_rarity)
                                                       ELSE builder[1].base_rarity))])
    /\ GenerateFrame

DrawNext ==
    \/ GenChange
    \/ DrawSame
    \/ DrawDifferent
    \/ GenRarity

DrawSpec == DrawInit /\ [][DrawNext]_vars

\* the call runs on, and the random source is fair: an element that can be
\* drawn again and again is drawn at some time
DrawFairSpec == DrawSpec /\ WF_vars(DrawNext) /\ SF_vars(DrawDifferent)

----------------------------------------------------------------------------
Next ==
    \/ EconomyFrame
    \/ RollingFrame
    \/ PlacementFrame
    \/ WaveFrame

Spec == Init /\ [][Next]_vars

----------------------------------------------------------------------------
(* The claims *)

\* the owned dice, with those whose purchase event die_purchased has yet to read
Purchased == dice \o ev_purchase

\* the shop die d has been bought: a die with its faces is among Purchased
Bought(d) == \E i \in 1..Len(Purchased) : Purchased[i].faces = d.faces

\* the die the shop highlights
Highlighted == shop_items[shop_highlighted + 1]

\* the ring of the gameplay phases
Successor(s) ==
    CASE s = Economy -> Rolling
      [] s = Rolling -> Placement
      [] s = Placement -> Wave
      [] s = Wave -> Economy

\* C1: in every reachable state the owned dice hold no shop die (no face
\* sequence) more than once.
C1_NoDuplicateDie ==
    \A i, j \in 1..Len(dice) : dice[i].faces = dice[j].faces => i = j

\* C2: a frame of Economy that changes money is a purchase of the highlighted
\* die: the die was not bought before, money goes down by exactly its value
\* (from 50 to 30 for the first die), and exactly one copy of it joins the
\* purchased dice.
C2_PurchaseOnce ==
    [][(state = Economy /\ money' # money) =>
          LET d == shop_items[shop_highlighted' + 1]
          IN  /\ ~Bought(d)
              /\ money' = money - d.value
              /\ (money = InitialMoney => money' = 30)
              /\ dice' \o ev_purchase' = Append(Purchased, d)]_vars

\* C3: an owned die compares equal to every shop die with the same face
\* sequence, whatever its result and its rolling flag.
C3_EqualityIgnoresResult ==
    \A i \in 1..Len(dice) : \A j \in 1..Len(shop_items) :
        dice[i].faces = shop_items[j].faces => DieEq(dice[i], shop_items[j])

\* C4: money is never negative.
C4_MoneyNeverNegative == money >= 0

\* C4: three dice are paid for, the third one with a kill reward, and no
\* money is left
C4_Witness == money = 0 /\ Len(Purchased) = 3 /\ Len(waves) >= 1

\* C5: in every world economy_ui can meet with less money than the
\* highlighted die costs, a click on Purchase changes nothing: money, the
\* dice, the shop, the requested phase and the events stay as they are.
C5_UnfundedPurchaseNoOp ==
    (state = Economy /\ Running) =>
        \A w \in Meets("economy_ui") :
            w.money < shop_items[w.shop_highlighted + 1].value =>
                economy_ui_on(w, "purchase") = w

\* C5: the shop highlights a die that no owned die equals and that the money
\* left after two purchases does not pay for
C5_Witness ==
    /\ state = Economy /\ Running
    /\ Len(dice) = 2 /\ ev_purchase = <<>>
    /\ money > 0 /\ money < Highlighted.value
    /\ ~Contains(dice, Highlighted)

\* C6: the game starts in Economy, and every change of the phase goes to the
\* successor on the ring Economy, Rolling, Placement, Wave, Economy.
C6_PhaseRing ==
    /\ state = Economy
    /\ [][state' # state => state' = Successor(state)]_vars

\* C6: the ring has been gone round once and the second round has reached
\* its wave
C6_Witness == state = Wave /\ Len(waves) = 2

\* C7: the phase goes from Economy to Rolling only when the player owns a
\* die.
C7_RollingNeedsDie ==
    [][(state = Economy /\ state' = Rolling) => dice' # <<>>]_vars

\* C8: Placement is never entered with an empty tower list, and in every
\* world handle_input can meet with an empty tower list the Placement action
\* changes nothing: pressed alone it leaves the world as it is, and pressed
\* with other actions it leaves what they leave.
C8_AdvanceNeedsTower ==
    /\ state = Placement => towers # <<>>
    /\ (state = Rolling /\ Running) =>
          \A w \in Meets("handle_input") :
              w.towers = <<>> =>
                  /\ handle_input_on(w, {"Placement"}) = w
                  /\ \A pressed \in SUBSET RollAction :
                        handle_input_on(w, pressed \cup {"Placement"})
                            = handle_input_on(w, pressed \ {"Placement"})

\* C8: Rolling with a die thrown and no tower unlocked yet
C8_Witness ==
    state = Rolling /\ Running /\ towers = <<>> /\ ev_rolled # <<>>

\* C9 as stated: the phase goes from Rolling to Placement only when a tower
\* was unlocked since Rolling was last entered.
C9_UnlockedThisCycle ==
    [][(state = Rolling /\ state' = Placement) => unlocked']_vars

\* C9 as the program has it: the phase goes from Rolling to Placement only
\* when the tower list is not empty, that is when some roll of the session
\* (of this round or of an earlier one) has resolved and unlocked a tower.
C9_UnlockedEver ==
    [][(state = Rolling /\ state' = Placement) =>
          /\ towers' # <<>>
          /\ \E i \in 1..Len(dice') : dice'[i].result # None]_vars

\* C9: Placement of the second round, entered on the towers of the first:
\* no tower was unlocked since Rolling was entered
C9_Witness ==
    state = Placement /\ ~panicked /\ Len(waves) = 1 /\ ~unlocked

\* C10: when the phase goes from Wave to Economy, the timer of the wave that
\* ends (the one start_wave spawned last) has run its 20 seconds.
C10_OwnTimerExpired ==
    [][(state = Wave /\ state' = Economy) =>
          waves'[Len(waves')] >= WaveSecs]_vars

\* C11: a wave never ends while an enemy is live. In every world end_wave
\* can meet, it requests Economy only when the enemies it observes are none,
\* and with an enemy left it leaves the requested state as it was, whatever
\* the timers say; so the phase leaves Wave only from a tick without enemies.
C11_NoEndWithEnemies ==
    (state = Wave /\ Running) =>
        /\ \A w \in Meets("end_wave") : \A w2 \in end_wave(w) :
              /\ w2.nextState = Economy => w.enemies = {}
              /\ w.enemies # {} => w2.nextState = w.nextState
        /\ \A o \in OrdersOf(Wave) :
              \A w \in RunAll(o, {World(dt) : dt \in FrameDeltas(Wave)}) :
                  w.nextState = Economy => enemies = {}

\* C11: a Wave tick that starts with the wave's timer run out and an enemy
\* still on the path
C11_Witness ==
    /\ state = Wave
    /\ enemies # {}
    /\ waves[Len(waves)] >= WaveSecs

\* The Wave systems run in every frame of the Wave state: a wave's frames
\* keep coming for as long as the phase is Wave.
FairSpec == Spec /\ WF_vars(WaveFrame)

\* C12: under fair ticking a wave ends by itself. Once the phase is Wave it
\* is eventually Economy again, with no command of the player: the spawner's
\* total time runs out, every enemy spawned dies or reaches the goal, and the
\* wave's timer finishes.
C12_WaveEnds == (state = Wave) ~> (state = Economy)

\* C12: back in Economy after a wave in which an enemy was spawned
C12_Witness ==
    /\ state = Economy
    /\ Len(waves) >= 1
    /\ spawner.total_time >= SpawnSecs

\* k presses of ToggleTowerType, of HighlightRight and of the shop's right
\* button, one after the other
RECURSIVE ToggleTimes(_, _)
ToggleTimes(w, k) ==
    IF k = 0 THEN w ELSE ToggleTimes(toggle_placeholder_type_on(w, TRUE), k - 1)

RECURSIVE RightTimes(_, _)
RightTimes(w, k) ==
    IF k = 0 THEN w ELSE RightTimes(handle_input_on(w, {"HighlightRight"}), k - 1)

RECURSIVE ShopRightTimes(_, _)
ShopRightTimes(w, k) ==
    IF k = 0 THEN w ELSE ShopRightTimes(economy_ui_on(w, "right"), k - 1)

C14_EmptyToggleNoOp ==
    /\ ~panicked
    /\ (state = Rolling /\ Running) =>
          \A w \in Meets("handle_input") :
              w.dice = <<>> =>
                  \A pressed \in SUBSET {"HighlightLeft", "HighlightRight", "Throw"} :
                      handle_input_on(w, pressed) = w
    /\ (state = Placement /\ Running) =>
          \A w \in Meets("toggle_placeholder_type") :
              w.towers = <<>> => toggle_placeholder_type_on(w, TRUE) = w

\* C15: the highlights stay inside their lists. Whenever a die is owned
\* highlighted_die is below the number of dice, and whenever a tower is
\* unlocked highlighted_tower is below the number of towers.
C15_HighlightInRange ==
    /\ dice # <<>> => highlighted_die < Len(dice)
    /\ towers # <<>> => highlighted_tower < Len(towers)

\* C15: both highlights on the last entry of a list of two or more
C15_Witness ==
    /\ Len(dice) >= 2
    /\ highlighted_die = Len(dice) - 1
    /\ Len(towers) >= 2
    /\ highlighted_tower = Len(towers) - 1

\* C20: once the result of a roll is recorded for an owned die, its rolling
\* flag is off: no owned die has a result and rolling = true.
C20_ResultEndsRolling ==
    \A i \in 1..Len(dice) : dice[i].result # None => ~dice[i].rolling

\* C16: damage saturates. In every world bullet_collision can meet, an enemy
\* of health H struck by a projectile of damage D is left with H - D when
\* D <= H and with 0 when D > H; struck by several projectiles it is left
\* with H less their damages, or 0; its health never rises and never falls
\* below 0, and an enemy no projectile touches keeps its health.
C16_DamageSaturates ==
    state = Wave =>
        \A w \in CombatMeets("bullet_collision") : \A w2 \in bullet_collision(w) :
            \A e \in w.enemies :
                LET hits == {p \in w.projectiles : p.dist = 0 /\ p.target = e.id}
                    after == CHOOSE x \in w2.enemies : x.id = e.id
                    total == Cardinality(hits) * ProjectileDamage
                IN  /\ \E x \in w2.enemies : x.id = e.id
                    /\ after.health \in 0..e.health
                    /\ \A p \in hits :
                          /\ p.damage = ProjectileDamage
                          /\ Damage(e.health, p.damage) =
                                IF p.damage <= e.health
                                THEN e.health - p.damage ELSE 0
                    /\ after.health = IF total <= e.health
                                      THEN e.health - total ELSE 0

\* C16: an enemy of less health than a projectile's damage has been struck
\* and is left with health 0
C16_Witness ==
    /\ state = Wave
    /\ enemy_health > 0
    /\ enemy_health < ProjectileDamage
    /\ \E e \in enemies : e.health = 0

C18_GoalNeverCredits ==
    state = Wave =>
        \A w \in CombatWorlds : w.commands.goal \cap w.commands.dead = {}

\* C19: orphans are cleaned up. A projectile that starts a frame of the wave
\* with its target gone is despawned by that frame, whatever its lifetime:
\* no projectile without its target starts two frames in a row.
C19_OrphanCleanup ==
    state = Wave =>
        LET orphans == {p.id : p \in {x \in projectiles : x.target \notin Ids(enemies)}}
        IN  \A w \in CombatWorlds :
                /\ orphans \subseteq w.commands.despawn_projectile
                /\ Ids(EndOfFrame(w).projectiles) \cap orphans = {}

\* C19: a projectile whose target is gone, and whose lifetime does not end
\* in this frame
C19_Witness ==
    /\ state = Wave
    /\ \E p \in projectiles :
          /\ p.target \notin Ids(enemies)
          /\ TickOnce(p.lifetime, LifetimeSecs, CombatDelta) < LifetimeSecs

\* the worlds a frame that starts from the current state can leave when its
\* systems have run
FrameWorlds ==
    UNION {RunAll(o, {World(dt) : dt \in FrameDeltas(state)}) : o \in OrdersOf(state)}

\* C21: each resolved roll appends exactly one tower, of the element of the
\* rolled face. In every world die_rolled can meet, with n roll events to
\* read: the towers it leaves are the towers it met followed by n more, the
\* k-th of them a catalog tower whose element is that of the face of the
\* k-th result it sends, a face of the k-th event's die; and no other system
\* of a frame changes the towers a frame starts with.
C21_RollUnlocksTower ==
    Running =>
        /\ \A w \in Meets("die_rolled") : \A w2 \in die_rolled(w) :
              ~w2.panicked =>
                  LET n == Len(w.ev_rolled)
                      t0 == Len(w.towers)
                      r0 == Len(w.ev_result)
                  IN  /\ Len(w2.towers) = t0 + n
                      /\ SubSeq(w2.towers, 1, t0) = w.towers
                      /\ Len(w2.ev_result) = r0 + n
                      /\ \A k \in 1..n :
                            LET face == w2.ev_result[r0 + k].face
                            IN  /\ w2.towers[t0 + k] \in DOMAIN tower_assets
                                /\ tower_assets[w2.towers[t0 + k]] = face.primary_type
                                /\ \E i \in DOMAIN w.ev_rolled[k].faces :
                                      w.ev_rolled[k].faces[i] = face
        /\ \A w \in FrameWorlds :
              ~w.panicked =>
                  /\ Len(w.towers) >= Len(towers)
                  /\ SubSeq(w.towers, 1, Len(towers)) = towers

\* C21: two rolls have resolved and unlocked the same tower twice
C21_Witness ==
    /\ Len(towers) >= 2
    /\ towers[1] = towers[2]
    /\ \E i \in 1..Len(dice) : dice[i].result # None

\* C22: a die's result is cleared when a new roll cycle begins. When the
\* phase goes from Economy to Rolling every owned die has no result, so that
\* each die can be thrown in the cycle that starts.
C22_ResultClearedOnRolling ==
    [][(state = Economy /\ state' = Rolling) =>
          \A i \in 1..Len(dice') : dice'[i].result = None]_vars

\* C23: the rolling flag guards a die against a second roll request.  A Throw
\* on a die that rolls or has a result sends no request and changes nothing;
\* no die has more than one request waiting; and the dice that hold a
\* result are no more than the requests accepted so far (each accepted
\* request is either waiting for die_rolled or has unlocked its one tower).
C23_ThrowGuard ==
    (state = Rolling /\ ~panicked) =>
        \A w \in RollMeets("handle_input") :
            (/\ ~w.panicked
             /\ w.highlighted_die < Len(w.dice)
             /\ \/ w.dice[w.highlighted_die + 1].rolling
                \/ w.dice[w.highlighted_die + 1].result # None)
            => handle_input_on(w, {"Throw"}) = w

C23_OneRequestWaiting ==
    Len(ev_rolled) <= Cardinality({i \in 1..Len(dice) :
                                      dice[i].rolling /\ dice[i].result = None})

C23_OneResultPerRequest ==
    /\ C23_ThrowGuard
    /\ C23_OneRequestWaiting
    /\ Cardinality({i \in 1..Len(dice) : dice[i].result # None})
          <= Len(towers) + Len(ev_rolled)

\* C24: the resolution of a thrown die is bounded.  On every tick of
\* check_dice_result a rolling die whose velocities are below the threshold
\* or whose 5-second timeout has elapsed stops rolling and sends its result
\* on that tick, a rolling die for which neither holds sends nothing, a die
\* that has stopped rolling never rolls or sends again, every die that stops
\* sends exactly one event, and no frame ends with a rolling die whose
\* timeout has elapsed.
C24_BoundedResolution ==
    /\ \A p \in physical : p.is_rolling => p.timeout < RollTimeoutSecs
    /\ (state = Rolling /\ ~panicked) =>
        \A w \in RollMeets("check_dice_result") :
          \A resting \in SUBSET Ids(w.physical) :
            \A w2 \in check_dice_result_on(w, resting) :
              /\ Ids(w2.physical) = Ids(w.physical)
              /\ Len(w2.ev_result) - Len(w.ev_result) =
                    Cardinality({p \in w.physical :
                                   /\ p.is_rolling
                                   /\ \E q \in w2.physical :
                                         q.id = p.id /\ ~q.is_rolling})
              /\ \A p \in w.physical :
                   \A q \in {x \in w2.physical : x.id = p.id} :
                      IF /\ p.is_rolling
                         /\ \/ p.id \in resting
                            \/ p.timeout + w.delta >= RollTimeoutSecs
                      THEN /\ ~q.is_rolling
                           /\ \E i \in (Len(w.ev_result) + 1)..Len(w2.ev_result) :
                                 /\ w2.ev_result[i].die = p.die_data
                                 /\ w2.ev_result[i].face \in Roll(p.die_data)
                      ELSE q.is_rolling = p.is_rolling

\* a thrown die is still rolling on the tick its timeout elapses
C24_Witness ==
    /\ state = Rolling
    /\ ~panicked
    /\ \E p \in physical : p.is_rolling /\ p.timeout + RollDelta >= RollTimeoutSecs

\* C25: a roll in progress cannot be cancelled.  Once the Rolling phase has
\* been left and no roll request is waiting for die_rolled, nothing can
\* give a die a result any more (the physical dice are despawned and
\* save_die_result no longer runs): at that point every owned die that is
\* marked rolling has its result.
C25_RollNotCancelled ==
    (state # Rolling /\ ~panicked /\ ev_rolled = <<>>) =>
        \A i \in 1..Len(dice) : dice[i].rolling => dice[i].result # None

\* C26: a thrown die object is removed only after its face was selected and
\* not before it has been on display for 2 seconds from the frame of the
\* selection: a die that is present when a frame starts and gone when it
\* ends has stopped rolling before, and the seconds it was shown, this
\* frame's included, are 2 at least.
C26_DisplayedTwoSeconds ==
    [][\A p \in physical :
          (p.id \notin Ids(physical')) =>
              /\ ~p.is_rolling
              /\ p.shown + RollDelta >= DisplaySecs]_vars

\* C27: the face selection rule.  Whatever the orientation a rolling die is
\* selected in, its face_up is an index in 0..5 of an axis (X: 0/1, Y: 2/3,
\* Z: 4/5) whose absolute dot product with the up vector is the largest of
\* the three, ties included, the even index when that dot product is
\* positive and the odd one otherwise.
C27_FaceOfLargestAxis ==
    (state = Rolling /\ ~panicked) =>
        \A w \in FaceMeets("check_dice_result") :
            \A p \in {x \in w.physical : x.is_rolling} :
                \A t \in Orientations :
                    LET q == CHOOSE x \in Select(w, p, t).physical : x.id = p.id
                        face == q.face_up[1]
                        axis == (face \div 2) + 1
                    IN  /\ face \in 0..5
                        /\ \A k \in 1..3 : Abs(t[k]) <= Abs(t[axis])
                        /\ (face % 2 = 0) <=> (t[axis] > 0)

\* C28: the element of a generated face.  Every face a DieBuilder has
\* generated carries the base element or one of Fire, Water, Earth, Wind
\* that differs from the base; it equals the base face when neither random
\* draw came true; and its element is None only if the base element is.
C28_GeneratedElement ==
    builder # None =>
        \A i \in 1..Len(builder[1].faces) :
            LET base == builder[1].base_face
                face == builder[1].faces[i]
                roll == builder[1].rolls[i]
            IN  /\ \/ face.primary_type = base.primary_type
                   \/ /\ face.primary_type \in {"Fire", "Water", "Earth", "Wind"}
                      /\ face.primary_type # base.primary_type
                /\ (~roll.change /\ ~roll.upgrade) => face = base
                /\ face.primary_type = "None" => base.primary_type = "None"

\* a Fire/Common builder has generated one face with neither draw true and
\* one with its element changed
C28_Witness ==
    /\ builder # None
    /\ builder[1].base_face = DieFace("Fire", "Common")
    /\ \E i, j \in 1..Len(builder[1].faces) :
          /\ ~builder[1].rolls[i].change
          /\ ~builder[1].rolls[i].upgrade
          /\ builder[1].faces[i] = DieFace("Fire", "Common")
          /\ builder[1].rolls[j].change
          /\ builder[1].faces[j].primary_type # "Fire"

\* the place of a rarity in the order Common < Uncommon < Rare < Epic < Unique
RarityRank(r) == CHOOSE i \in DOMAIN Rarity : Rarity[i] = r

\* C29: the rarity of a generated face.  Every face a DieBuilder has
\* generated has the base rarity or the one a single step above it, never a
\* lower one and never one two steps above; a Unique base gives Unique; and
\* two faces of one builder whose rarity draw came out the same have the
\* same rarity, whether or not their element was changed.
C29_GeneratedRarity ==
    builder # None =>
        LET base == builder[1].base_face
            faces == builder[1].faces
            rolls == builder[1].rolls
        IN  /\ \A i \in 1..Len(faces) :
                  /\ RarityRank(faces[i].rarity) - RarityRank(base.rarity) \in {0, 1}
                  /\ base.rarity = "Unique" => faces[i].rarity = "Unique"
                  /\ ~rolls[i].upgrade => faces[i].rarity = base.rarity
            /\ \A i, j \in 1..Len(faces) :
                  rolls[i].upgrade = rolls[j].upgrade
                      => faces[i].rarity = faces[j].rarity

\* a builder has generated two upgraded faces, a step above its base
\* rarity, one of them with its element changed and one without
C29_Witness ==
    /\ builder # None
    /\ \E i, j \in 1..Len(builder[1].faces) :
          /\ builder[1].rolls[i].upgrade /\ builder[1].rolls[j].upgrade
          /\ builder[1].rolls[i].change /\ ~builder[1].rolls[j].change
          /\ builder[1].faces[i].rarity # builder[1].base_face.rarity

\* C30: the attack rule.  In every run of tower_shooting in which a tower's
\* cooldown expires (its attack_speed timer reaches its duration on one of
\* the run's ticks) and some enemy is within the tower's range, a projectile
\* is spawned in that run that targets an enemy within that range,
\* wherever the enemy comes in the iteration.
C30_TowerFiresInRange ==
    (state = Wave /\ ~panicked) =>
        \A w \in ShootMeets("tower_shooting") :
            \A w2 \in tower_shooting(w) :
                \A i \in DOMAIN w.placed :
                    LET tower == w.placed[i]
                        near == {e \in w.enemies : e.pos <= tower.range}
                        shots == SubSeq(w2.commands.spawn_projectile,
                                        Len(w.commands.spawn_projectile) + 1,
                                        Len(w2.commands.spawn_projectile))
                    IN  (/\ tower.attack_speed + Cardinality(w.enemies) * w.delta
                               >= AttackSecs * w.rate
                         /\ near # {})
                        => \E k \in DOMAIN shots : shots[k] \in Ids(near)

\* C31: a tower's cooldown advances by the tick's delta, once.  After every
\* run of tower_shooting each tower's attack_speed timer stands where one
\* tick of the frame's delta takes it, or at zero when the tower has fired
\* in that run, whatever the number of enemies alive (none, one, several).
C31_CooldownTicksOnce ==
    (state = Wave /\ ~panicked) =>
        \A w \in ShootMeets("tower_shooting") :
            \A w2 \in tower_shooting(w) :
                \A i \in DOMAIN w.placed :
                    \/ w2.placed[i].attack_speed =
                          (w.placed[i].attack_speed + w.delta) % (AttackSecs * w.rate)
                    \/ /\ w2.placed[i].attack_speed = 0
                       /\ Len(w2.commands.spawn_projectile)
                             > Len(w.commands.spawn_projectile)

\* C32: a Wave tick is deterministic.  The stages take effect in one fixed
\* order (spawn, move, attack, projectile-move, collision, cleanup): every
\* order the frame can run its systems in leaves the world the fixed order
\* leaves.
C32_FixedStageOrder ==
    (state = Wave /\ ~panicked) =>
        \A w \in CombatWorlds :
            \A fixed \in RunAll(<<"spawn_enemy", "move_enemy", "tower_shooting",
                                  "move_projectile", "bullet_collision",
                                  "bullet_despawn", "target_death",
                                  "enemy_goal_collision", "end_wave",
                                  "die_purchased", "die_rolled">>,
                                {World(CombatDelta)}) :
                EndOfFrame(w) = EndOfFrame(fixed)

\* C33: a roll whose face has no tower in the catalog is aborted.  When
\* die_rolled resolves a request for a die none of whose faces has a
\* matching tower, no tower is appended and the application goes on: the
\* resolution does not panic.
C33_NoTowerAborts ==
    (state = Rolling /\ ~panicked) =>
        \A w \in RollMeets("die_rolled") :
            (/\ ~w.panicked
             /\ w.ev_rolled # <<>>
             /\ \A face \in Roll(Head(w.ev_rolled)) :
                   {id \in DOMAIN tower_assets :
                       tower_assets[id] = face.primary_type} = {})
            => \A w2 \in die_rolled_one(w, Head(w.ev_rolled)) :
                  /\ ~w2.panicked
                  /\ w2.towers = w.towers

\* C34: face generation terminates.  At least three of the four candidate
\* elements differ from the base element at all times, and under a fair
\* random source a call that has entered the rejection loop leaves it, and
\* every call returns a face.
C34_GenerateTerminates ==
    /\ [](builder # None =>
            Cardinality({k \in DOMAIN GenElements :
                            GenElements[k] # builder[1].base_element}) >= 3)
    /\ (builder # None /\ builder[1].pc = "loop")
          ~> (builder # None /\ builder[1].pc # "loop")
    /\ <>(builder # None /\ builder[1].pc = "done" /\ builder[1].face # None)

\* a call has returned a face of another element after the loop had drawn
\* the base element
C34_Witness ==
    /\ builder # None
    /\ builder[1].pc = "done"
    /\ builder[1].rejected
    /\ builder[1].face # None
    /\ builder[1].face[1].primary_type # builder[1].base_element

\* C35: resolving a roll changes only the result and the rolling flag of
\* the die that was thrown.  No frame of Rolling, and no frame that resolves
\* a roll request, changes the number of the owned dice, their order or the
\* face sequence of any of them, wherever the highlight stands when the
\* request is resolved.
C35_RollKeepsDice ==
    [][(state = Rolling \/ ev_rolled # <<>>) =>
          /\ Len(dice') = Len(dice)
          /\ \A i \in 1..Len(dice) : dice'[i].faces = dice[i].faces]_vars

\* C36: at most one Wave instance exists at any time.  The Wave entity a
\* wave was started with is gone before start_wave spawns the next one, so
\* the timers end_wave ticks are never more than one.
C36_OneWave == Len(waves) <= 1

C38_SpawnerRunsEachWave ==
    (state = Wave /\ ~panicked /\ waves # <<>> /\ waves[Len(waves)] = 0) =>
        \E dt \in FrameDeltas(Wave) : \E w2 \in spawn_enemy(World(dt)) :
            w2.commands.spawn_enemy > 0

\* C39: money conservation.  In every frame of a wave the money changes by
\* 10 for each enemy that is destroyed at the end of the frame with health
\* 0, and by nothing else: as no die is bought during a wave, money stays
\* 50 - (the values of the dice purchased) + 10 * (the enemies destroyed
\* with health 0).
C39_MoneyConserved ==
    (state = Wave /\ ~panicked) =>
        \A w \in CombatWorlds :
            w.money = money + KillReward *
                Cardinality({e \in w.enemies :
                                /\ e.health = 0
                                /\ e.id \in w.commands.dead \cup w.commands.goal})

====
